---- MODULE Spec2Model ----
(***************************************************************************)
(* Model of the MCP registry service, src/src/mcp_registry/                *)
(* mcp_registry_server.py: the Backend table `servers`, the health cache,  *)
(* the snapshot file servers.json, port allocation, the startup sequence   *)
(* of run() and the four Flask request handlers.  Flask's development      *)
(* server handles each request on its own thread, so a handler is a        *)
(* sequence of steps of one worker, split where the code touches shared    *)
(* state or blocks on the network / the file system.                       *)
(***************************************************************************)
EXTENDS Integers, Sequences, FiniteSets, TLC

\* ------------------------------------------------------------------ bounds
\* The port range is start_port .. start_port + PortSpan (the code's default
\* range 5000..65535, scaled down).
PortSpan == 2
\* The wall clock runs from 0 to MaxTime seconds, in steps of TickStep.
MaxTime == 30
TickStep == 15
\* The registry process is killed and started again at most MaxRestarts times.
MaxRestarts == 1
\* The registry accepts at most MaxRequests requests between two starts.
MaxRequests == 2

\* ------------------------------------------------------- program constants
PERMISSION_SERVER_NAME == "PermissionServer"
START_PORT == 5000
END_PORT == START_PORT + PortSpan
TTL_SECONDS == 30
PERMISSION_URL == "http://127.0.0.1"
ASK_FOR_PERMISSION == "ask_for_permission"
DOT == "."

\* ------------------------------------------------------------ input sets
Workers == {"w1", "w2"}
RegNames == {"Echo", "Evil"}
AllNames == RegNames \cup {PERMISSION_SERVER_NAME}
Urls == {"http://127.0.0.1", "http://localhost"}
Descs == {"d", "dd"}
Ports == START_PORT .. END_PORT
NoPort == 0
required_fields == {"server_url", "server_name", "server_description"}

\* What listens on a port of the local host: nothing ("free"), a process that
\* holds the port without answering /health with 200 ("busy"), or a backend
\* of one of three kinds, which answers /health and serves a tool catalog.
Kinds == {"perm", "echo", "evil"}
PortStates == {"free", "busy"} \cup Kinds
Catalog(kind) ==
  CASE kind = "perm" -> {ASK_FOR_PERMISSION}
    [] kind = "echo" -> {"echo_tool"}
    [] kind = "evil" -> {"echo_tool", ASK_FOR_PERMISSION}
    [] OTHER -> {}

VARIABLES
  servers,       \* the Backend table: records in dict insertion order
  health_cache,  \* name -> cached verdict
  storage,       \* the snapshot file servers.json
  portState,     \* environment: what holds each port of the host
  now,           \* the wall clock, in seconds
  phase,         \* position of run(): boot, perm_up, serving, crashed
  restarts,      \* number of restarts of the process so far
  requests,      \* number of requests accepted since the process started
  pc,            \* per worker: position in its request handler
  loc,           \* per worker: the handler's local variables
  resp,          \* the response most recently sent, and the worker that sent it
  done           \* history: the names registered with a 201 response so far

vars == <<servers, health_cache, storage, portState, now, phase, restarts,
          requests, pc, loc, resp, done>>

\* ----------------------------------------------------------- Server table
Server(name, description, url, port) ==
  [name |-> name, description |-> description, url |-> url, port |-> port]

NamesOf(table) == {table[i].name : i \in 1..Len(table)}
IndexOf(table, name) == CHOOSE i \in 1..Len(table) : table[i].name = name
Lookup(table, name) == table[IndexOf(table, name)]

\* servers[name] = server: a new key is appended, an existing key keeps its
\* position and gets the new value.
DictSet(table, server) ==
  IF server.name \in NamesOf(table)
    THEN [table EXCEPT ![IndexOf(table, server.name)] = server]
    ELSE Append(table, server)

\* ------------------------------------------------------- port allocation
\* sock.bind((host, port)) with the bind error ignored (a mutant).
BindableAlways(port) == TRUE
\* Line 62: sock.bind((host, port)) succeeds.
Bindable(port) == portState[port] = "free"

\* The scan with the port after the range returned where the code raises (a
\* mutant: `return port` after the loop).
RECURSIVE ScanPastEnd(_, _)
ScanPastEnd(port, end_port) ==
  IF port > end_port THEN port
  ELSE IF Bindable(port) THEN port
  ELSE ScanPastEnd(port + 1, end_port)

\* The scan going through the whole range, whatever the starting point (a
\* mutant).
ScanWholeRange(port, end_port) ==
  IF \E p \in START_PORT..end_port : Bindable(p)
    THEN CHOOSE p \in START_PORT..end_port :
           Bindable(p) /\ \A q \in START_PORT..(p - 1) : ~Bindable(q)
    ELSE NoPort

\* Lines 59-66: the ports the scan from `port` tries to bind.
RECURSIVE ProbedFrom(_, _)
ProbedFrom(port, end_port) ==
  IF port > end_port THEN {}
  ELSE IF Bindable(port) THEN {port}
  ELSE {port} \cup ProbedFrom(port + 1, end_port)

\* Lines 59-70: the scan upward from `port`; NoPort stands for the
\* RuntimeError raised after the loop.
RECURSIVE ScanFrom(_, _)
ScanFrom(port, end_port) ==
  IF port > end_port THEN NoPort
  ELSE IF Bindable(port) THEN port
  ELSE ScanFrom(port + 1, end_port)

\* Lines 57-70: the ports _generate_port can return, over the starting points
\* random.randint(start_port, end_port) can give.
generate_port(start_port, end_port) ==
  {ScanFrom(r, end_port) : r \in start_port..end_port}

\* ------------------------------------------------------------ health probe
\* A cache entry: the time of the check and its verdict (line 95), and the
\* address the verdict was obtained from (history).
Address(server) == <<server.url, server.port>>
NoRecord == [has |-> FALSE, at |-> 0, ok |-> FALSE, of |-> <<"", NoPort>>]
HealthRecord(at, ok, server) ==
  [has |-> TRUE, at |-> at, ok |-> ok, of |-> Address(server)]

\* requests.get(f"{server.url}:{server.port}/health") answers 200.
ProbeOK(server) == portState[server.port] \in Kinds

\* The cache lookup with the age test always failing (a mutant).
CacheFreshNever(cache, name) == FALSE
\* The cache lookup trusting a verdict of exactly 30 seconds (a mutant).
CacheFreshInclusive(cache, name) ==
  cache[name].has /\ now - cache[name].at <= TTL_SECONDS
\* Lines 84-86: a cached verdict exists and is younger than 30 seconds.
CacheFresh(cache, name) ==
  cache[name].has /\ now - cache[name].at < TTL_SECONDS

\* check_server_health run without interruption (startup is single-threaded).
CheckVerdict(cache, server) ==
  IF CacheFresh(cache, server.name) THEN cache[server.name].ok
  ELSE ProbeOK(server)
CheckCache(cache, server) ==
  IF CacheFresh(cache, server.name) THEN cache
  ELSE [cache EXCEPT ![server.name] = HealthRecord(now, ProbeOK(server), server)]

\* ---------------------------------------------------------- snapshot file
StrLen(s) ==
  CASE s = "d" -> 1
    [] s = "dd" -> 2
    [] s = "Echo" -> 4
    [] s = "Evil" -> 4
    [] s = "PermissionServer" -> 16
    [] s = "http://127.0.0.1" -> 16
    [] s = "http://localhost" -> 16
    [] OTHER -> 0

\* Length of one entry of json.dump's output:
\* "<name>": {"name": "<name>", "description": "<d>", "url": "<u>", "port": <p>}
EntryLen(server) ==
  61 + 2 * StrLen(server.name) + StrLen(server.description)
     + StrLen(server.url) + 4

RECURSIVE SumEntries(_)
SumEntries(table) ==
  IF table = <<>> THEN 0
  ELSE EntryLen(Head(table)) + 2 + SumEntries(Tail(table))

SerLen(table) == IF table = <<>> THEN 2 ELSE SumEntries(table)

FileMissing == [kind |-> "missing", data |-> <<>>, len |-> 0]
FileTruncated == [kind |-> "empty", data |-> <<>>, len |-> 0]
FileOk(table) == [kind |-> "ok", data |-> table, len |-> SerLen(table)]

\* A write of `table` at offset 0 of the file as it is now: the bytes beyond
\* the new text stay, and make the file invalid JSON.
Overlay(file, table) ==
  IF SerLen(table) >= file.len THEN FileOk(table)
  ELSE [kind |-> "garbled", data |-> <<>>, len |-> file.len]

\* Line 109: Server(**server_data) accepts an entry that has exactly the four
\* fields of the dataclass (it raises TypeError for any other).
ServerFields == {"name", "description", "url", "port"}
IsServerData(server_data) == DOMAIN server_data = ServerFields

\* load_servers: the entries of the snapshot whose health check succeeds, and
\* the health cache the checks leave.  A missing file gives {}; so does a file
\* json.load rejects (the exception is caught before any entry is read).  An
\* entry Server() rejects ends the loop (line 114) with the entries loaded
\* before it in the dict that line 117 returns.
RECURSIVE LoadEntries(_, _, _)
LoadEntries(entries, loaded, cache) ==
  IF entries = <<>> THEN [servers |-> loaded, cache |-> cache]
  ELSE IF ~IsServerData(Head(entries))
    THEN [servers |-> loaded, cache |-> cache]
  ELSE LET server == Head(entries)
       IN LoadEntries(Tail(entries),
                      IF CheckVerdict(cache, server)
                        THEN DictSet(loaded, server) ELSE loaded,
                      CheckCache(cache, server))

load_servers(file, cache) ==
  IF file.kind = "ok" THEN LoadEntries(file.data, <<>>, cache)
  ELSE [servers |-> <<>>, cache |-> cache]

\* The merge without the test of line 307 (a mutant).
RECURSIVE MergeLoadedAll(_, _)
MergeLoadedAll(table, loaded) ==
  IF loaded = <<>> THEN table
  ELSE MergeLoadedAll(DictSet(table, Head(loaded)), Tail(loaded))

\* run(), lines 306-308: loaded entries are merged, except the reserved name.
RECURSIVE MergeLoaded(_, _)
MergeLoaded(table, loaded) ==
  IF loaded = <<>> THEN table
  ELSE MergeLoaded(IF Head(loaded).name # PERMISSION_SERVER_NAME
                     THEN DictSet(table, Head(loaded)) ELSE table,
                   Tail(loaded))

\* -------------------------------------------------------------- tool names
\* A tool name is a sequence of tokens: DOT stands for the character ".",
\* every other token for a non-empty run of characters without one.  The text
\* of a plain string is the one-token sequence.
Text(s) == <<s>>
HasDot(name) == \E i \in 1..Len(name) : name[i] = DOT
FirstDot(name) ==
  CHOOSE i \in 1..Len(name) :
    name[i] = DOT /\ \A j \in 1..(i - 1) : name[j] # DOT
\* Lines 225-231: server_name, tool_name = name.split(".", 1).
ServerPart(name) == SubSeq(name, 1, FirstDot(name) - 1)
ToolPart(name) ==
  IF HasDot(name) THEN SubSeq(name, FirstDot(name) + 1, Len(name)) ELSE name

\* Line 237: server_name in servers.
Registered(table, server_name) ==
  Len(server_name) = 1 /\ server_name[1] \in NamesOf(table)

\* Line 234, with the restriction left out (a mutant).
IsForeignConsentNever(server_name, tool_name) == FALSE
\* Line 234: the consent tool qualified with another server's name.
IsForeignConsent(server_name, tool_name) ==
  /\ tool_name = Text(ASK_FOR_PERMISSION)
  /\ server_name # Text(PERMISSION_SERVER_NAME)

\* The transport client reaches a backend process at server.url:server.port;
\* otherwise its calls raise requests.RequestException.
TransportOK(server) == portState[server.port] \in Kinds
\* Line 253: any(t.name == tool_name for t in available_tools).
HasTool(server, tool_name) ==
  /\ TransportOK(server)
  /\ Len(tool_name) = 1
  /\ tool_name[1] \in Catalog(portState[server.port])

\* ----------------------------------------------------------------- workers
NoServer == Server("", "", "", NoPort)
\* server: new_server, or the server being health-checked; dumped: the table
\* json.dump serialized; idx, used: position of the iteration over
\* servers.values() and the dict size it started with; acc: the list being
\* built, then target_servers; name: the tool name of a call_tool request;
\* view: the handler iterates over servers.values() (not over a list of its
\* own); is_healthy: the outcome of the /health request it has made;
\* probes: the /health requests this handler has sent, contacted: the
\* backends it has sent a transport request to, before: the snapshot file as
\* it was when the handler called save_servers (history).
IdleLoc == [op |-> "none", server |-> NoServer, dumped |-> <<>>,
            idx |-> 0, used |-> 0, acc |-> <<>>, name |-> <<>>,
            view |-> TRUE, is_healthy |-> FALSE,
            probes |-> 0, contacted |-> {}, before |-> FileMissing]
\* A response: the worker that answered, the operation, the status, the
\* body, and for call_tool the tool name that was asked for (history).
NoResp ==
  [worker |-> "", op |-> "none", status |-> 0, body |-> <<>>, name |-> <<>>]
Reply(w, op, status) ==
  [worker |-> w, op |-> op, status |-> status, body |-> <<>>, name |-> <<>>]
ReplyWith(w, op, status, body) ==
  [worker |-> w, op |-> op, status |-> status, body |-> body, name |-> <<>>]
ReplyTo(w, name, status, body) ==
  [worker |-> w, op |-> "call_tool", status |-> status, body |-> body,
   name |-> name]

Init ==
  /\ servers = <<>>
  /\ health_cache = [n \in AllNames |-> NoRecord]
  /\ storage = FileMissing
  /\ portState = [p \in Ports |-> "free"]
  /\ now = 0
  /\ phase = "boot"
  /\ restarts = 0
  /\ requests = 0
  /\ pc = [w \in Workers |-> "idle"]
  /\ loc = [w \in Workers |-> IdleLoc]
  /\ resp = NoResp
  /\ done = {}

\* ----------------------------------------------------------------- startup
\* load_permission_server: allocate a port, enter the privileged backend in
\* the table, start its thread and sleep; the thread binds the port.
LoadPermissionServer ==
  /\ phase = "boot"
  /\ \E port \in generate_port(START_PORT, END_PORT) :
       IF port = NoPort
         THEN /\ phase' = "crashed"
              /\ UNCHANGED <<servers, portState>>
         ELSE /\ servers' = DictSet(servers,
                   Server(PERMISSION_SERVER_NAME, "d", PERMISSION_URL, port))
              /\ portState' = [portState EXCEPT ![port] = "perm"]
              /\ phase' = "perm_up"
  /\ UNCHANGED <<health_cache, storage, now, restarts, requests, pc, loc,
                 resp, done>>

\* run(), lines 305-312: load the snapshot, merge it, save, serve.
LoadAndServe ==
  /\ phase = "perm_up"
  /\ LET l == load_servers(storage, health_cache)
         merged == MergeLoaded(servers, l.servers)
     IN /\ servers' = merged
        /\ health_cache' = l.cache
        /\ storage' = FileOk(merged)
  /\ phase' = "serving"
  /\ UNCHANGED <<portState, now, restarts, requests, pc, loc, resp, done>>

\* The registry process dies and is started again: its memory is lost, its
\* permission-server thread releases its port, the snapshot file stays.
Restart ==
  /\ restarts < MaxRestarts
  /\ phase \in {"serving", "crashed"}
  /\ restarts' = restarts + 1
  /\ requests' = 0
  /\ servers' = <<>>
  /\ health_cache' = [n \in AllNames |-> NoRecord]
  /\ portState' = [p \in Ports |->
                     IF portState[p] = "perm" THEN "free" ELSE portState[p]]
  /\ phase' = "boot"
  /\ pc' = [w \in Workers |-> "idle"]
  /\ loc' = [w \in Workers |-> IdleLoc]
  /\ resp' = NoResp
  /\ done' = {}
  /\ UNCHANGED <<storage, now>>

\* ------------------------------------------------------------- environment
\* A process on the host binds a free port, or the process holding a port
\* exits (the registry's own permission thread lives as long as the registry).
EnvBind(port, state) ==
  /\ portState[port] = "free"
  /\ portState' = [portState EXCEPT ![port] = state]
  /\ UNCHANGED <<servers, health_cache, storage, now, phase, restarts,
                 requests, pc, loc, resp, done>>

EnvRelease(port) ==
  /\ portState[port] \notin {"free", "perm"}
  /\ portState' = [portState EXCEPT ![port] = "free"]
  /\ UNCHANGED <<servers, health_cache, storage, now, phase, restarts,
                 requests, pc, loc, resp, done>>

Tick ==
  /\ now + TickStep <= MaxTime
  /\ now' = now + TickStep
  /\ UNCHANGED <<servers, health_cache, storage, portState, phase, restarts,
                 requests, pc, loc, resp, done>>

\* --------------------------------------------------------- register_server
\* Line 132: not all(field in data for field in required_fields).
MissingFields(data) == ~(required_fields \subseteq DOMAIN data)

\* Line 136, with the reserved-name check left out (a mutant).
IsReservedNever(data) == FALSE
\* Line 136: data["server_name"] == PERMISSION_SERVER_NAME.
IsReserved(data) == data["server_name"] = PERMISSION_SERVER_NAME

\* Lines 128-150: validation, port allocation, the write to the table.
RegisterServer(w, data) ==
  /\ phase = "serving"
  /\ pc[w] = "idle"
  /\ IF MissingFields(data)
       THEN /\ resp' = Reply(w, "register_server", 400)
            /\ UNCHANGED <<servers, pc, loc>>
     ELSE IF IsReserved(data)
       THEN /\ resp' = Reply(w, "register_server", 403)
            /\ UNCHANGED <<servers, pc, loc>>
     ELSE \E port \in generate_port(START_PORT, END_PORT) :
       IF port = NoPort
         THEN /\ resp' = Reply(w, "register_server", 500)
              /\ UNCHANGED <<servers, pc, loc>>
         ELSE LET new_server == Server(data["server_name"],
                                       data["server_description"],
                                       data["server_url"], port)
              IN /\ servers' = DictSet(servers, new_server)
                 /\ pc' = [pc EXCEPT ![w] = "save_open"]
                 /\ loc' = [loc EXCEPT ![w] =
                              [IdleLoc EXCEPT !.op = "register",
                                              !.server = new_server]]
                 /\ UNCHANGED resp
  /\ UNCHANGED <<health_cache, storage, portState, now, phase, restarts, done>>

\* save_servers, lines 122-123: open(STORAGE_FILE, "w") truncates the file and
\* json.dump serializes the table into the file object's buffer.  (The table
\* is read after the truncation; the two commute with every step of another
\* worker, so they are one step here.)
SaveOpen(w) ==
  /\ pc[w] = "save_open"
  /\ storage' = FileTruncated
  /\ loc' = [loc EXCEPT ![w].dumped = servers, ![w].before = storage]
  /\ pc' = [pc EXCEPT ![w] = "save_close"]
  /\ UNCHANGED <<servers, health_cache, portState, now, phase, restarts,
                 requests, resp, done>>

\* Leaving the with block flushes the buffer to the file; then lines 152-167.
SaveClose(w) ==
  /\ pc[w] = "save_close"
  /\ storage' = Overlay(storage, loc[w].dumped)
  /\ resp' = Reply(w, "register_server", 201)
  /\ pc' = [pc EXCEPT ![w] = "idle"]
  /\ loc' = [loc EXCEPT ![w] = IdleLoc]
  /\ done' = done \cup {loc[w].server.name}
  /\ UNCHANGED <<servers, health_cache, portState, now, phase, restarts,
                 requests>>

\* save_servers raises and register_server does not catch it: Flask answers
\* 500.  Line 122: open(STORAGE_FILE, "w") fails (the file is not writable)
\* and the file is left as it was.
SaveOpenFails(w) ==
  /\ pc[w] = "save_open"
  /\ resp' = Reply(w, "register_server", 500)
  /\ pc' = [pc EXCEPT ![w] = "idle"]
  /\ loc' = [loc EXCEPT ![w] = IdleLoc]
  /\ UNCHANGED <<servers, health_cache, storage, portState, now, phase,
                 restarts, requests, done>>

\* A write that stopped part of the way: some text is in the file, and it is
\* not valid JSON.
Partial(file) ==
  [kind |-> "garbled", data |-> <<>>,
   len |-> IF file.len > 1 THEN file.len ELSE 1]

\* Line 123: the flush at the end of the with block fails (the disk is full):
\* nothing, or a part of the text, has been written to the truncated file.
SaveCloseFails(w) ==
  /\ pc[w] = "save_close"
  /\ storage' \in {storage, Partial(storage)}
  /\ resp' = Reply(w, "register_server", 500)
  /\ pc' = [pc EXCEPT ![w] = "idle"]
  /\ loc' = [loc EXCEPT ![w] = IdleLoc]
  /\ UNCHANGED <<servers, health_cache, portState, now, phase, restarts,
                 requests, done>>

\* ------------------------------------------------------------- get_servers
\* Line 181: the iteration over servers.values() begins.
GetServers(w) ==
  /\ phase = "serving"
  /\ pc[w] = "idle"
  /\ loc' = [loc EXCEPT ![w] =
               [IdleLoc EXCEPT !.op = "get_servers", !.used = Len(servers)]]
  /\ pc' = [pc EXCEPT ![w] = "iter"]
  /\ UNCHANGED <<servers, health_cache, storage, portState, now, phase,
                 restarts, requests, resp, done>>

\* call_tool, lines 267-272: no candidate gave a result.  The message names
\* the qualifying server if one was given and is not the empty string.
NotFoundBodyAnonymous(name) == <<>>
NotFoundBody(name) ==
  IF HasDot(name) /\ ServerPart(name) # <<>> THEN <<ServerPart(name)>> ELSE <<>>

NotFound(w) ==
  /\ resp' = ReplyTo(w, loc[w].name, 404, NotFoundBody(loc[w].name))
  /\ pc' = [pc EXCEPT ![w] = "idle"]
  /\ loc' = [loc EXCEPT ![w] = IdleLoc]

\* call_tool, line 248: the loop over target_servers begins; an empty list
\* falls through to line 267.
EnterLoop(w, l, target_servers) ==
  IF target_servers = <<>>
    THEN /\ resp' = ReplyTo(w, l.name, 404, NotFoundBody(l.name))
         /\ pc' = [pc EXCEPT ![w] = "idle"]
         /\ loc' = [loc EXCEPT ![w] = IdleLoc]
    ELSE /\ loc' = [loc EXCEPT ![w] =
                      [l EXCEPT !.acc = target_servers, !.idx = 0]]
         /\ pc' = [pc EXCEPT ![w] = "invoke"]
         /\ UNCHANGED resp

\* The iteration ends: get_servers answers with the list it built (line 173);
\* in call_tool the list is target_servers (line 245).
IterDone(w) ==
  IF loc[w].op = "call_tool"
    THEN EnterLoop(w, loc[w], loc[w].acc)
    ELSE /\ resp' = ReplyWith(w, loc[w].op, 200, loc[w].acc)
         /\ pc' = [pc EXCEPT ![w] = "idle"]
         /\ loc' = [loc EXCEPT ![w] = IdleLoc]

\* get_tools, lines 196 and 211: the loop over the targets is over, or goes
\* on with the next value of servers.values().
AfterServer(w, l) ==
  IF l.view
    THEN /\ loc' = [loc EXCEPT ![w] =
                      [l EXCEPT !.server = NoServer, !.is_healthy = FALSE]]
         /\ pc' = [pc EXCEPT ![w] = "iter"]
         /\ UNCHANGED resp
    ELSE /\ resp' = [ReplyWith(w, l.op, 200, l.acc) EXCEPT !.name = l.name]
         /\ pc' = [pc EXCEPT ![w] = "idle"]
         /\ loc' = [loc EXCEPT ![w] = IdleLoc]

\* The callers of check_server_health, with get_tools listing the tools of
\* every server whatever the verdict (a mutant).
AfterVerdictListsAll(w, l, is_healthy) ==
  /\ loc' = [loc EXCEPT ![w] =
               IF l.op = "get_tools" THEN l
               ELSE [l EXCEPT !.acc = IF is_healthy
                                        THEN Append(@, l.server) ELSE @,
                              !.server = NoServer,
                              !.is_healthy = FALSE]]
  /\ pc' = [pc EXCEPT ![w] = IF l.op = "get_tools" THEN "list" ELSE "iter"]
  /\ UNCHANGED resp

\* What the caller does with the verdict of check_server_health(l.server):
\* the list comprehensions of get_servers (line 181) and call_tool (line 245)
\* keep a healthy server; get_tools (lines 199-201) lists the tools of a
\* healthy server and skips an unhealthy one.
AfterVerdict(w, l, is_healthy) ==
  IF l.op = "get_tools"
    THEN IF is_healthy
           THEN /\ loc' = [loc EXCEPT ![w] = l]
                /\ pc' = [pc EXCEPT ![w] = "list"]
                /\ UNCHANGED resp
           ELSE AfterServer(w, l)
    ELSE /\ loc' = [loc EXCEPT ![w] =
                      [l EXCEPT !.acc = IF is_healthy
                                          THEN Append(@, l.server) ELSE @,
                                !.server = NoServer,
                                !.is_healthy = FALSE]]
         /\ pc' = [pc EXCEPT ![w] = "iter"]
         /\ UNCHANGED resp

\* Lines 84-87: the cache lookup of check_server_health(l.server).  A fresh
\* cached verdict decides at once, otherwise the handler goes on to probe.
CheckHealth(w, l) ==
  IF CacheFresh(health_cache, l.server.name)
    THEN AfterVerdict(w, l, health_cache[l.server.name].ok)
    ELSE /\ loc' = [loc EXCEPT ![w] = l]
         /\ pc' = [pc EXCEPT ![w] = "probe"]
         /\ UNCHANGED resp

\* The next value of servers.values() (lines 181, 196, 245) and the cache
\* lookup of its health check.  The dict iterator raises RuntimeError when a
\* key was added since the iteration began (Flask answers 500, and so does
\* line 213).
IterNext(w) ==
  /\ pc[w] = "iter"
  /\ IF Len(servers) # loc[w].used
       THEN /\ resp' = IF loc[w].op = "call_tool"
                         THEN ReplyTo(w, loc[w].name, 500, <<>>)
                         ELSE Reply(w, loc[w].op, 500)
            /\ pc' = [pc EXCEPT ![w] = "idle"]
            /\ loc' = [loc EXCEPT ![w] = IdleLoc]
     ELSE IF loc[w].idx >= Len(servers)
       THEN IterDone(w)
     ELSE CheckHealth(w, [loc[w] EXCEPT !.idx = @ + 1,
                                        !.server = servers[loc[w].idx + 1]])
  /\ UNCHANGED <<servers, health_cache, storage, portState, now, phase,
                 restarts, requests, done>>

\* Lines 89-93: the /health request and its outcome.
Probe(w) ==
  /\ pc[w] = "probe"
  /\ loc' = [loc EXCEPT ![w].probes = @ + 1,
                        ![w].is_healthy = ProbeOK(loc[w].server)]
  /\ pc' = [pc EXCEPT ![w] = "record"]
  /\ UNCHANGED <<servers, health_cache, storage, portState, now, phase,
                 restarts, requests, resp, done>>

\* Lines 95-96 with the entry of a server found unhealthy deleted from the
\* table (a mutant).
RecordEvicting(w) ==
  /\ pc[w] = "record"
  /\ health_cache' = [health_cache EXCEPT
       ![loc[w].server.name] = HealthRecord(now, loc[w].is_healthy,
                                                loc[w].server)]
  /\ AfterVerdict(w, loc[w], loc[w].is_healthy)
  /\ servers' = IF loc[w].is_healthy THEN servers
                ELSE SelectSeq(servers,
                               LAMBDA s : s.name # loc[w].server.name)
  /\ UNCHANGED <<storage, portState, now, phase, restarts, requests, done>>

\* Lines 95-96: the cache write, stamped with the time of the write, and the
\* verdict returned to the caller.
Record(w) ==
  /\ pc[w] = "record"
  /\ health_cache' = [health_cache EXCEPT
       ![loc[w].server.name] = HealthRecord(now, loc[w].is_healthy,
                                                loc[w].server)]
  /\ AfterVerdict(w, loc[w], loc[w].is_healthy)
  /\ UNCHANGED <<servers, storage, portState, now, phase, restarts, requests,
                 done>>

\* --------------------------------------------------------------- get_tools
\* Line 195: `if server_name`, with every name taken as absent (a mutant).
TruthyNever(args) == FALSE
\* Line 195: a server_name was given and is not the empty string.
Truthy(args) ==
  "server_name" \in DOMAIN args /\ args["server_name"] # ""

\* Line 202 without the server prefix (a mutant).
QualifiedBare(server_name, tools) == {<<t>> : t \in tools}
\* Line 202: tool.name = f"{server.name}.{tool.name}".
Qualified(server_name, tools) ==
  {<<server_name, DOT, t>> : t \in tools}

\* Lines 190-199: the targets are the named server (KeyError gives 404, line
\* 211) or the values of the table; for the named server the health check
\* begins at once.
GetTools(w, args) ==
  /\ phase = "serving"
  /\ pc[w] = "idle"
  /\ LET l == [IdleLoc EXCEPT !.op = "get_tools"]
     IN IF Truthy(args)
          THEN IF args["server_name"] \notin NamesOf(servers)
                 THEN /\ resp' = ReplyWith(w, "get_tools", 404,
                                           <<args["server_name"]>>)
                      /\ UNCHANGED <<pc, loc>>
                 ELSE CheckHealth(w,
                        [l EXCEPT !.view = FALSE,
                                  !.name = Text(args["server_name"]),
                                  !.server = Lookup(servers,
                                                    args["server_name"])])
          ELSE /\ loc' = [loc EXCEPT ![w] = [l EXCEPT !.used = Len(servers)]]
               /\ pc' = [pc EXCEPT ![w] = "iter"]
               /\ UNCHANGED resp
  /\ UNCHANGED <<servers, health_cache, storage, portState, now, phase,
                 restarts, done>>

\* Lines 201-209: the catalog of a healthy target is fetched and its tools
\* are added under qualified names; a transport failure marks the server
\* unhealthy in the cache and the loop goes on.
ListCatalog(w) ==
  /\ pc[w] = "list"
  /\ LET server == loc[w].server
         l == [loc[w] EXCEPT !.contacted = @ \cup {server}]
     IN IF TransportOK(server)
          THEN /\ AfterServer(w,
                    [l EXCEPT !.acc = Append(@,
                       Qualified(server.name, Catalog(portState[server.port])))])
               /\ UNCHANGED health_cache
          ELSE /\ health_cache' = [health_cache EXCEPT
                    ![server.name] = HealthRecord(now, FALSE, server)]
               /\ AfterServer(w, l)
  /\ UNCHANGED <<servers, storage, portState, now, phase, restarts, requests,
                 done>>

\* --------------------------------------------------------------- call_tool
\* Lines 219-245: the name is taken from the body and split; the consent tool
\* is refused under another server's name; the targets are chosen.  The
\* unqualified search goes through the iteration with its health checks.
CallTool(w, data) ==
  /\ phase = "serving"
  /\ pc[w] = "idle"
  /\ IF "name" \notin DOMAIN data
       THEN /\ resp' = Reply(w, "call_tool", 400)
            /\ UNCHANGED <<pc, loc>>
     ELSE LET name == data["name"]
              tool_name == ToolPart(name)
              l == [IdleLoc EXCEPT !.op = "call_tool", !.name = name]
          IN IF HasDot(name)
               THEN IF IsForeignConsent(ServerPart(name), tool_name)
                      THEN /\ resp' = ReplyTo(w, name, 403, <<>>)
                           /\ UNCHANGED <<pc, loc>>
                    ELSE IF ~Registered(servers, ServerPart(name))
                      THEN /\ resp' = ReplyTo(w, name, 404,
                                              <<ServerPart(name)>>)
                           /\ UNCHANGED <<pc, loc>>
                    ELSE EnterLoop(w, l,
                                   <<Lookup(servers, ServerPart(name)[1])>>)
             ELSE IF tool_name = Text(ASK_FOR_PERMISSION)
               THEN IF PERMISSION_SERVER_NAME \in NamesOf(servers)
                      THEN EnterLoop(w, l,
                             <<Lookup(servers, PERMISSION_SERVER_NAME)>>)
                      ELSE /\ resp' = ReplyTo(w, name, 500, <<>>)
                           /\ UNCHANGED <<pc, loc>>
             ELSE /\ loc' = [loc EXCEPT ![w] =
                               [l EXCEPT !.used = Len(servers)]]
                  /\ pc' = [pc EXCEPT ![w] = "iter"]
                  /\ UNCHANGED resp
  /\ UNCHANGED <<servers, health_cache, storage, portState, now, phase,
                 restarts, done>>

\* Lines 254 and 263-265 with `break` in the place of `continue` (a mutant).
GiveUp(w, server) == NotFound(w)

\* Lines 254 and 263-265: this candidate is given up; the next one is tried,
\* or the loop is over.
SkipCandidate(w, server) ==
  IF loc[w].idx + 1 >= Len(loc[w].acc)
    THEN NotFound(w)
    ELSE /\ loc' = [loc EXCEPT ![w].idx = @ + 1,
                               ![w].contacted = @ \cup {server}]
         /\ pc' = [pc EXCEPT ![w] = "invoke"]
         /\ UNCHANGED resp

\* Lines 249-254 with the cache write of get_tools (line 207) in the handler
\* of RequestException (a mutant).
ListToolsMarking(w) ==
  /\ pc[w] = "invoke"
  /\ LET server == loc[w].acc[loc[w].idx + 1]
     IN /\ IF HasTool(server, ToolPart(loc[w].name))
             THEN /\ loc' = [loc EXCEPT ![w].contacted = @ \cup {server}]
                  /\ pc' = [pc EXCEPT ![w] = "call"]
                  /\ UNCHANGED resp
             ELSE SkipCandidate(w, server)
        /\ health_cache' =
             IF TransportOK(server)
               THEN health_cache
               ELSE [health_cache EXCEPT
                       ![server.name] = HealthRecord(now, FALSE, server)]
  /\ UNCHANGED <<servers, storage, portState, now, phase, restarts, requests,
                 done>>

\* Lines 249-254: the catalog of the next candidate is fetched and searched.
ListTools(w) ==
  /\ pc[w] = "invoke"
  /\ LET server == loc[w].acc[loc[w].idx + 1]
     IN IF HasTool(server, ToolPart(loc[w].name))
          THEN /\ loc' = [loc EXCEPT ![w].contacted = @ \cup {server}]
               /\ pc' = [pc EXCEPT ![w] = "call"]
               /\ UNCHANGED resp
          ELSE SkipCandidate(w, server)
  /\ UNCHANGED <<servers, health_cache, storage, portState, now, phase,
                 restarts, requests, done>>

\* Lines 257-260: the tool is called on the candidate; the backend that
\* answers gives the result.
InvokeTool(w) ==
  /\ pc[w] = "call"
  /\ LET server == loc[w].acc[loc[w].idx + 1]
     IN IF HasTool(server, ToolPart(loc[w].name))
          THEN /\ resp' = ReplyTo(w, loc[w].name, 200,
                   <<[server |-> server, kind |-> portState[server.port]]>>)
               /\ pc' = [pc EXCEPT ![w] = "idle"]
               /\ loc' = [loc EXCEPT ![w] = IdleLoc]
          ELSE SkipCandidate(w, server)
  /\ UNCHANGED <<servers, health_cache, storage, portState, now, phase,
                 restarts, requests, done>>

\* ------------------------------------------------------------ request data
RegData(name, url, desc) ==
  [f \in required_fields |->
     CASE f = "server_url" -> url
       [] f = "server_name" -> name
       [] f = "server_description" -> desc]

Without(data, field) == [f \in (DOMAIN data) \ {field} |-> data[f]]

\* The body of a call_tool request; its other entries are the arguments handed
\* through to the backend.
CallData(name) == [f \in {"name"} |-> name]

\* --------------------------------------------------------- specifications
Startup == LoadPermissionServer \/ LoadAndServe

\* The registration requests of the registry scenario: every name, two
\* (url, description) variants, and requests lacking a required field.
Variants == {<<"http://127.0.0.1", "d">>, <<"http://localhost", "dd">>}

RegistryRequests ==
  {RegData(name, v[1], v[2]) : name \in AllNames, v \in Variants}
  \cup {Without(RegData(name, PERMISSION_URL, "d"), field) :
          name \in AllNames, field \in required_fields}

\* The process takes a new request while fewer than `max` were taken.
Accept(max) == requests < max /\ requests' = requests + 1

Register ==
  \E w \in Workers :
    \/ \E data \in RegistryRequests :
         Accept(MaxRequests) /\ RegisterServer(w, data)
    \/ SaveOpen(w)
    \/ SaveClose(w)

\* Other processes of the host come and go on the upper ports of the range.
ForeignPorts == {END_PORT - 1, END_PORT}

EnvPorts ==
  \/ \E port \in ForeignPorts : EnvBind(port, "busy")
  \/ \E port \in ForeignPorts : EnvRelease(port)

NextRegistry == Startup \/ Register \/ EnvPorts

SpecRegistry == Init /\ [][NextRegistry]_vars

\* Two clients: one registers Echo again and again, the other registers Evil;
\* registrations under one name never overlap.
RegisterApart ==
  \/ \E v \in Variants :
       Accept(MaxRequests + 1) /\ RegisterServer("w1", RegData("Echo", v[1], v[2]))
  \/ Accept(MaxRequests + 1)
       /\ RegisterServer("w2", RegData("Evil", PERMISSION_URL, "d"))
  \/ \E w \in Workers : SaveOpen(w)
  \/ \E w \in Workers : SaveClose(w)

NextOverlap == Startup \/ RegisterApart

SpecOverlap == Init /\ [][NextOverlap]_vars

\* One client registers backends, which then start listening on ports of the
\* host or stop; the registry process is restarted and loads its snapshot.
RegisterAlone ==
  \/ \E v \in Variants :
       Accept(MaxRequests) /\ RegisterServer("w1", RegData("Echo", v[1], v[2]))
  \/ Accept(MaxRequests)
       /\ RegisterServer("w1", RegData("Evil", PERMISSION_URL, "d"))
  \/ SaveOpen("w1")
  \/ SaveClose("w1")

EnvBackends ==
  \/ \E port \in Ports : EnvBind(port, "echo")
  \/ \E port \in Ports : EnvRelease(port)

NextRestart == Startup \/ RegisterAlone \/ EnvBackends \/ Restart

SpecRestart == Init /\ [][NextRestart]_vars

\* Clients list the live servers while one backend, Echo, registers, starts
\* and stops, and the clock advances.
ListLive ==
  \E w \in Workers :
    \/ GetServers(w)
    \/ IterNext(w)
    \/ Probe(w)
    \/ Record(w)

RegisterEcho ==
  \/ Accept(MaxRequests)
       /\ RegisterServer("w1", RegData("Echo", PERMISSION_URL, "d"))
  \/ SaveOpen("w1")
  \/ SaveClose("w1")

\* A registered backend starts listening on the port it was assigned, or a
\* backend stops.
EnvAssigned ==
  \/ \E i \in 1..Len(servers) : EnvBind(servers[i].port, "echo")
  \/ \E port \in Ports : EnvRelease(port)

NextHealth ==
  Startup \/ RegisterEcho \/ ListLive \/ EnvAssigned \/ Tick

SpecHealth == Init /\ [][NextHealth]_vars

\* Clients call tools while the backends Echo and Evil register, start and
\* stop.  Evil offers a tool named like the consent tool; no server is ever
\* registered as Ghost.
CallNames ==
  { <<ASK_FOR_PERMISSION>>,
    <<PERMISSION_SERVER_NAME, DOT, ASK_FOR_PERMISSION>>,
    <<"Evil", DOT, ASK_FOR_PERMISSION>>,
    <<"Ghost", DOT, ASK_FOR_PERMISSION>>,
    <<DOT, ASK_FOR_PERMISSION>>,
    <<"Evil", DOT, "x", DOT, ASK_FOR_PERMISSION>>,
    <<"echo_tool">>,
    <<"Echo", DOT, "echo_tool">>,
    <<"Ghost", DOT, "echo_tool">> }

CallRequests ==
  {CallData(name) : name \in CallNames}
  \cup {Without(CallData(<<"echo_tool">>), "name")}

RegisterBackends ==
  \/ \E name \in RegNames :
       Accept(MaxRequests + 1)
         /\ RegisterServer("w1", RegData(name, PERMISSION_URL, "d"))
  \/ SaveOpen("w1")
  \/ SaveClose("w1")

Dispatch ==
  \/ \E data \in CallRequests : Accept(MaxRequests + 1) /\ CallTool("w2", data)
  \/ IterNext("w2")
  \/ Probe("w2")
  \/ Record("w2")
  \/ ListTools("w2")
  \/ InvokeTool("w2")

\* The process a registered backend runs.
BackendKind(name) == IF name = "Evil" THEN "evil" ELSE "echo"

EnvNamed ==
  \/ \E i \in 1..Len(servers) :
       /\ servers[i].name \in RegNames
       /\ EnvBind(servers[i].port, BackendKind(servers[i].name))
  \/ \E port \in Ports : EnvRelease(port)

NextDispatch == Startup \/ RegisterBackends \/ Dispatch \/ EnvNamed

SpecDispatch == Init /\ [][NextDispatch]_vars

\* Clients list tools while the backends Echo and Evil register, start and
\* stop: of one server, of a server never registered, of all servers.
ToolsRequests ==
  {[f \in {"server_name"} |-> name] : name \in {"Echo", "Ghost", ""}}
  \cup {Without([f \in {"server_name"} |-> ""], "server_name")}

Tools ==
  \/ \E args \in ToolsRequests : Accept(MaxRequests + 1) /\ GetTools("w2", args)
  \/ IterNext("w2")
  \/ Probe("w2")
  \/ Record("w2")
  \/ ListCatalog("w2")

NextTools == Startup \/ RegisterBackends \/ Tools \/ EnvNamed

SpecTools == Init /\ [][NextTools]_vars

\* One client registers backends on a host whose file system can refuse the
\* snapshot write; the registry process is restarted and loads what is there.
SaveFails ==
  \/ SaveOpenFails("w1")
  \/ SaveCloseFails("w1")

NextSaveFail == Startup \/ RegisterAlone \/ SaveFails \/ Restart

SpecSaveFail == Init /\ [][NextSaveFail]_vars

\* The snapshot file is written by hand while the registry is down: entries
\* for Echo and Evil in either order, with or without an entry that lacks
\* its port, a text that is not JSON, or no file; backends listen on the
\* ports the entries name, or do not.
EchoData == Server("Echo", "d", PERMISSION_URL, START_PORT + 1)
EvilData == Server("Evil", "d", PERMISSION_URL, START_PORT + 2)
BadData == [name |-> "Ghost", description |-> "d", url |-> PERMISSION_URL]
FileWith(entries) == [kind |-> "ok", data |-> entries, len |-> 2]
EditedSnapshots ==
  {FileWith(entries) :
     entries \in {<<>>, <<EchoData>>, <<EchoData, EvilData>>,
                  <<EvilData, EchoData>>, <<BadData>>,
                  <<BadData, EchoData>>, <<EchoData, BadData>>,
                  <<EchoData, BadData, EvilData>>,
                  <<EvilData, EchoData, BadData>>}}
  \cup {FileMissing, [kind |-> "garbled", data |-> <<>>, len |-> 2]}

EditSnapshot ==
  /\ phase = "boot"
  /\ storage' \in EditedSnapshots
  /\ UNCHANGED <<servers, health_cache, portState, now, phase, restarts,
                 requests, pc, loc, resp, done>>

NextLoad == Startup \/ EditSnapshot \/ EnvBackends \/ Restart

SpecLoad == Init /\ [][NextLoad]_vars

\* One client registers Echo while another lists the live servers, lists
\* tools and calls tools; Echo starts and stops and the clock advances.
ServeRequests ==
  \/ GetServers("w2")
  \/ \E name \in {"Echo", ""} :
       Accept(MaxRequests + 1)
         /\ GetTools("w2", [f \in {"server_name"} |-> name])
  \/ \E name \in {<<"echo_tool">>, <<"Echo", DOT, "echo_tool">>} :
       Accept(MaxRequests + 1) /\ CallTool("w2", CallData(name))

Serve ==
  \/ ServeRequests
  \/ IterNext("w2")
  \/ Probe("w2")
  \/ Record("w2")
  \/ ListCatalog("w2")
  \/ ListTools("w2")
  \/ InvokeTool("w2")

NextFrame == Startup \/ RegisterEcho \/ Serve \/ EnvAssigned \/ Tick

SpecFrame == Init /\ [][NextFrame]_vars

\* One client sends registrations under every name, the reserved one
\* included, while another lists servers and tools and calls the consent
\* tool; the registered backends start and stop.
PrivilegedRequests ==
  {RegData(name, PERMISSION_URL, "dd") :
     name \in {"Evil", PERMISSION_SERVER_NAME}}
  \cup {Without(RegData(PERMISSION_SERVER_NAME, PERMISSION_URL, "dd"),
                "server_url")}

RegisterAny ==
  \/ \E data \in PrivilegedRequests :
       Accept(MaxRequests) /\ RegisterServer("w1", data)
  \/ SaveOpen("w1")
  \/ SaveClose("w1")

ConsentRequests ==
  \/ GetServers("w2")
  \/ Accept(MaxRequests)
       /\ GetTools("w2", Without([f \in {"server_name"} |-> ""], "server_name"))
  \/ \E name \in {<<ASK_FOR_PERMISSION>>,
                   <<PERMISSION_SERVER_NAME, DOT, ASK_FOR_PERMISSION>>,
                   <<"Evil", DOT, ASK_FOR_PERMISSION>>} :
       Accept(MaxRequests + 1) /\ CallTool("w2", CallData(name))

Consent ==
  \/ ConsentRequests
  \/ IterNext("w2")
  \/ Probe("w2")
  \/ Record("w2")
  \/ ListCatalog("w2")
  \/ ListTools("w2")
  \/ InvokeTool("w2")

NextPrivileged == Startup \/ RegisterAny \/ Consent \/ EnvNamed

SpecPrivileged == Init /\ [][NextPrivileged]_vars

\* The same clients, with each backend registering once, and backends that
\* start only while no call is being handled and never stop: what a call
\* finds listening stays as it is until the call is answered.
RegisterOnce ==
  \/ \E name \in RegNames :
       /\ name \notin NamesOf(servers)
       /\ Accept(MaxRequests + 1)
       /\ RegisterServer("w1", RegData(name, PERMISSION_URL, "d"))
  \/ SaveOpen("w1")
  \/ SaveClose("w1")

EnvStart ==
  /\ \A w \in Workers : loc[w].op # "call_tool"
  /\ \E i \in 1..Len(servers) :
       /\ servers[i].name \in RegNames
       /\ EnvBind(servers[i].port, BackendKind(servers[i].name))

NextSelect == Startup \/ RegisterOnce \/ Dispatch \/ EnvStart

SpecSelect == Init /\ [][NextSelect]_vars

\* Clients list the live servers while the clock advances; Echo starts and
\* stops during the first instant only, so a backend that is down later has
\* been down since time 0.
EnvEarly ==
  /\ now = 0
  /\ EnvAssigned

NextCrash == Startup \/ RegisterEcho \/ ListLive \/ EnvEarly \/ Tick

SpecCrash == Init /\ [][NextCrash]_vars

\* ------------------------------------------------------------------ claims
\* The register_server requests that name the reserved server, with or
\* without their other fields.
ReservedRequests ==
  {data \in RegistryRequests :
     "server_name" \in DOMAIN data
     /\ data["server_name"] = PERMISSION_SERVER_NAME}

RegisterRejected(w, status) ==
  /\ resp' = Reply(w, "register_server", status)
  /\ UNCHANGED <<servers, storage, portState, pc, loc>>

\* C2, as stated: every register_server request whose server_name is
\* PermissionServer is answered 403, whatever its other fields, and leaves the
\* Backend table, the snapshot and the ports as they were.
C2_ReservedAlways403 ==
  [][\A w \in Workers, data \in ReservedRequests :
       RegisterServer(w, data) => RegisterRejected(w, 403)]_vars

\* C2, amended: a register_server request whose server_name is
\* PermissionServer never succeeds and changes nothing; it is answered 403
\* when all required fields are present and 400 when one is missing, because
\* the field check comes first.
C2_ReservedNeverRegisters ==
  [][\A w \in Workers, data \in ReservedRequests :
       RegisterServer(w, data) =>
         RegisterRejected(w, IF MissingFields(data) THEN 400 ELSE 403)]_vars

\* C2 witness: a reserved-name request was answered 403 while another backend
\* is registered.
C2_Witness ==
  /\ resp.op = "register_server"
  /\ resp.status = 403
  /\ NamesOf(servers) \cap RegNames # {}


\* The table holds exactly one record under the server's name, the server's.
HoldsExactly(table, server) ==
  /\ Cardinality({i \in 1..Len(table) : table[i].name = server.name}) = 1
  /\ Lookup(table, server.name) = server

\* C3, as stated: when a registration completes under a name that was
\* registered before, the Backend table and the snapshot each hold exactly one
\* record for the name, the record of the registration that completes.
C3_SecondReplacesFirst ==
  [][\A w \in Workers :
       (SaveClose(w) /\ loc[w].server.name \in done) =>
         /\ HoldsExactly(servers', loc[w].server)
         /\ storage'.kind = "ok"
         /\ HoldsExactly(storage'.data, loc[w].server)]_vars

\* C9: every port _generate_port returned, in a record of the Backend table
\* or in the hands of a registration in progress, lies in
\* [start_port, end_port].
C9_PortsInRange ==
  /\ \A i \in 1..Len(servers) : servers[i].port \in START_PORT..END_PORT
  /\ \A w \in Workers :
       pc[w] # "idle" => loc[w].server.port \in START_PORT..END_PORT

\* C9 witness: a backend was given the last port of the range while the port
\* below it was held by another process (the scan went past a bound port).
C9_Witness ==
  /\ \E i \in 1..Len(servers) :
       servers[i].name \in RegNames /\ servers[i].port = END_PORT
  /\ portState[END_PORT - 1] = "busy"

\* C10, as stated: two backends registered for the same host never hold the
\* same port.
C10_DistinctPorts ==
  \A i, j \in 1..Len(servers) :
    (i # j /\ servers[i].url = servers[j].url) =>
      servers[i].port # servers[j].port

\* C10, amended: an allocation never returns a port that is bound when the
\* allocation is made (so never the port the running permission backend
\* holds); the allocator holds nothing once it has returned, and two
\* allocations made while a port is unbound can both be given that port.
C10_AllocatedPortWasUnbound ==
  [][/\ \A w \in Workers :
          (pc[w] = "idle" /\ pc'[w] = "save_open") =>
            portState[loc'[w].server.port] = "free"
     /\ (phase = "boot" /\ phase' = "perm_up") =>
          portState[Lookup(servers', PERMISSION_SERVER_NAME).port] = "free"]_vars

\* C10 witness: two backends registered for the same host hold the same port,
\* which neither has bound yet, while another port is held by a process.
C10_Witness ==
  /\ \E i, j \in 1..Len(servers) :
       /\ i # j
       /\ servers[i].url = servers[j].url
       /\ servers[i].port = servers[j].port
       /\ portState[servers[i].port] = "free"
  /\ \E p \in Ports : portState[p] = "busy"


\* The records of the table other than the privileged backend's.
Others(table) ==
  {table[i] : i \in {j \in 1..Len(table) :
                       table[j].name # PERMISSION_SERVER_NAME}}
Records(table) == {table[i] : i \in 1..Len(table)}

\* The startup load of a completely written snapshot, taken while every
\* record of `saved` answers its health path.
LoadsReachable(saved) ==
  /\ phase = "perm_up" /\ phase' = "serving"
  /\ storage.kind = "ok"
  /\ \A server \in saved : ProbeOK(server)

\* C8, as stated: the startup load of a saved snapshot, with every saved
\* record reachable, gives a Backend table with the records of the snapshot:
\* the same names, and per name the same url, port and description.
C8_RoundTrip ==
  [][LoadsReachable(Records(storage.data)) =>
       Records(servers') = Records(storage.data)]_vars

\* C8, amended: the startup load of a saved snapshot, with every saved backend
\* other than PermissionServer reachable, gives a table with the same names
\* and, for every name other than PermissionServer, the same url, port and
\* description; the PermissionServer record is the one load_permission_server
\* has just created, with its newly allocated port, whatever the snapshot
\* holds under that name.
C8_RoundTripButPermissionServer ==
  [][LoadsReachable(Others(storage.data)) =>
       /\ Others(servers') = Others(storage.data)
       /\ NamesOf(servers') = NamesOf(storage.data) \cup {PERMISSION_SERVER_NAME}
       /\ Lookup(servers', PERMISSION_SERVER_NAME)
            = Lookup(servers, PERMISSION_SERVER_NAME)]_vars

\* C8 witness: after a restart the table holds a registered backend restored
\* from the snapshot, and a PermissionServer port that differs from the one
\* the snapshot recorded before that load.
C8_Witness ==
  /\ restarts > 0 /\ phase = "serving" /\ requests = 0
  /\ NamesOf(servers) \cap RegNames # {}
  /\ portState[Lookup(servers, PERMISSION_SERVER_NAME).port] = "perm"
  /\ \E p \in Ports : portState[p] = "echo"


\* A verdict for the name is cached and less than 30 seconds old.
InWindow(name) ==
  health_cache[name].has /\ now - health_cache[name].at < TTL_SECONDS

\* This step is worker w's, and in it w's handler calls check_server_health
\* for `server`, the next value of its iteration over the table.
CheckBegins(w, server) ==
  /\ pc[w] = "iter"
  /\ loc'[w] # loc[w]
  /\ Len(servers) = loc[w].used
  /\ loc[w].idx < Len(servers)
  /\ server = servers[loc[w].idx + 1]

\* This step adds the backend `name` to the list worker w's GET /servers
\* handler will answer with.
Lists(w, name) ==
  /\ loc[w].op = "get_servers" /\ loc'[w].op = "get_servers"
  /\ Len(loc'[w].acc) = Len(loc[w].acc) + 1
  /\ loc'[w].acc[Len(loc'[w].acc)].name = name

\* C4, as stated: while an unhealthy verdict for a backend is cached and less
\* than 30 seconds old, no GET /servers handler lists that backend.
C4_UnhealthyStaysHidden ==
  [][\A w \in Workers, name \in AllNames :
       (InWindow(name) /\ ~health_cache[name].ok) => ~Lists(w, name)]_vars

ConsentNames == {name \in CallNames : ToolPart(name) = Text(ASK_FOR_PERMISSION)}
PermissionEntry(table) == Lookup(table, PERMISSION_SERVER_NAME)

\* C1: a call_tool request for the consent tool qualified with a server name
\* other than PermissionServer is answered 403 in its first step, before any
\* health probe or transport call, whether or not that server is registered
\* or offers such a tool; unqualified (or qualified with PermissionServer) its
\* candidate list is exactly the PermissionServer entry, and while it is
\* handled it sends no health probe and contacts no other backend.
C1_ConsentOnlyPermissionServer ==
  [][\A w \in Workers :
       /\ \A name \in ConsentNames :
            CallTool(w, CallData(name)) =>
              IF HasDot(name) /\ ServerPart(name) # Text(PERMISSION_SERVER_NAME)
                THEN /\ resp' = ReplyTo(w, name, 403, <<>>)
                     /\ UNCHANGED <<pc, loc, health_cache>>
                ELSE /\ pc'[w] = "invoke"
                     /\ loc'[w].acc = <<PermissionEntry(servers)>>
       /\ (loc'[w].op = "call_tool"
             /\ ToolPart(loc'[w].name) = Text(ASK_FOR_PERMISSION)) =>
            /\ pc'[w] \in {"invoke", "call"}
            /\ loc'[w].acc = <<PermissionEntry(servers')>>
            /\ loc'[w].probes = 0
            /\ loc'[w].contacted \subseteq {PermissionEntry(servers')}]_vars

\* C1 witness: the consent tool asked of Evil was refused with 403 while Evil
\* is registered and running a backend that offers a tool of that name.
C1_Witness ==
  /\ resp.status = 403
  /\ resp.name = <<"Evil", DOT, ASK_FOR_PERMISSION>>
  /\ "Evil" \in NamesOf(servers)
  /\ portState[Lookup(servers, "Evil").port] = "evil"
  /\ ASK_FOR_PERMISSION \in Catalog(portState[Lookup(servers, "Evil").port])


\* The registered backends the Health Prober reports live now and that offer
\* the tool.
LiveWithTool(tool_name) ==
  {server \in Records(servers) :
     CheckVerdict(health_cache, server) /\ HasTool(server, tool_name)}

\* This step answers worker w's call_tool request for an unqualified tool
\* other than the consent tool.
AnswersSearch(w) ==
  /\ loc[w].op = "call_tool"
  /\ pc'[w] = "idle"
  /\ ~HasDot(loc[w].name)
  /\ loc[w].name # Text(ASK_FOR_PERMISSION)

\* C6, as stated: a call_tool request for an unqualified tool other than the
\* consent tool is answered 200 with the result of the backend that offers
\* it when exactly one backend reported live offers it, and 404 when no
\* backend reported live offers it.
C6_UnqualifiedResolves ==
  [][\A w \in Workers :
       AnswersSearch(w) =>
         LET offering == LiveWithTool(loc[w].name)
         IN /\ Cardinality(offering) = 1 =>
                 /\ resp'.status = 200
                 /\ resp'.body[1].server \in offering
            /\ offering = {} => resp'.status = 404]_vars

\* C6, apart from the failed iteration: in the same runs every such request
\* that is not answered 500 is answered as C6 states.
C6_ResolvesUnlessIterationFails ==
  [][\A w \in Workers :
       (AnswersSearch(w) /\ resp'.status # 500) =>
         LET offering == LiveWithTool(loc[w].name)
         IN /\ Cardinality(offering) = 1 =>
                 /\ resp'.status = 200
                 /\ resp'.body[1].server \in offering
            /\ offering = {} => resp'.status = 404]_vars


\* The call_tool names qualified with a server, for a tool other than the
\* consent tool.
QualifiedNames ==
  {name \in CallNames :
     HasDot(name) /\ ToolPart(name) # Text(ASK_FOR_PERMISSION)}

\* C7: a call_tool request for server.tool (tool not the consent tool) is
\* answered 404 in its first step, with no backend contacted, when the server
\* is not registered; when it is registered the candidate list is exactly its
\* entry, no health check is made or consulted whatever the cached verdict,
\* and when the catalog fetch or the call fails, or the catalog lacks the
\* tool, the answer is 404 naming the server.
C7_QualifiedSingleCandidate ==
  [][\A w \in Workers :
       /\ \A name \in QualifiedNames :
            CallTool(w, CallData(name)) =>
              IF ~Registered(servers, ServerPart(name))
                THEN /\ resp' = ReplyTo(w, name, 404, <<ServerPart(name)>>)
                     /\ UNCHANGED <<pc, loc, health_cache>>
                ELSE /\ pc'[w] = "invoke"
                     /\ loc'[w].acc = <<Lookup(servers, ServerPart(name)[1])>>
                     /\ loc'[w].probes = 0
                     /\ loc'[w].contacted = {}
                     /\ UNCHANGED <<resp, health_cache>>
       /\ (loc[w].op = "call_tool" /\ loc[w].name \in QualifiedNames
             /\ loc'[w] # loc[w]) =>
            /\ pc[w] \in {"invoke", "call"}
            /\ Len(loc[w].acc) = 1
            /\ loc[w].probes = 0
            /\ health_cache' = health_cache
            /\ IF HasTool(loc[w].acc[1], ToolPart(loc[w].name))
                 THEN \/ pc'[w] = "call"
                      \/ /\ resp'.status = 200
                         /\ resp'.body[1].server = loc[w].acc[1]
                 ELSE resp' = ReplyTo(w, loc[w].name, 404,
                                      <<ServerPart(loc[w].name)>>)]_vars

\* C7 witness: Echo.echo_tool was answered by Echo although the verdict
\* cached for Echo, less than 30 seconds old, is unhealthy.
C7_Witness ==
  /\ resp.status = 200
  /\ resp.name = <<"Echo", DOT, "echo_tool">>
  /\ InWindow("Echo")
  /\ ~health_cache["Echo"].ok


\* This step is worker w's /health request, and this one its cache write.
ProbeStep(w) == pc[w] = "probe" /\ pc'[w] = "record"
RecordStep(w) == pc[w] = "record" /\ pc'[w] # "record"

PermissionServerUp ==
  /\ PERMISSION_SERVER_NAME \in NamesOf(servers)
  /\ portState[PermissionEntry(servers).port] = "perm"

\* C11: at startup the snapshot is left alone until the privileged backend is
\* in the table and its thread started; the load that follows keeps that
\* record, whatever the snapshot holds under the name PermissionServer, and
\* it is the record the table and the new snapshot hold when serving begins.
C11_PermissionServerBeforeLoad ==
  [][/\ (phase = "boot" /\ phase' # "boot") => storage' = storage
     /\ (phase = "perm_up" /\ phase' = "serving") =>
          /\ PermissionServerUp
          /\ PermissionEntry(servers') = PermissionEntry(servers)
          /\ PermissionEntry(storage'.data) = PermissionEntry(servers)]_vars

\* C11 witness: the registry was restarted and load_permission_server has run;
\* the snapshot about to be loaded holds a PermissionServer record with
\* another port, on which a backend now answers the health path.
C11_Witness ==
  /\ restarts > 0 /\ phase = "perm_up"
  /\ PermissionServerUp
  /\ storage.kind = "ok"
  /\ PERMISSION_SERVER_NAME \in NamesOf(storage.data)
  /\ PermissionEntry(storage.data).port # PermissionEntry(servers).port
  /\ ProbeOK(PermissionEntry(storage.data))


\* C19, as stated: whenever the registry is serving and no registration is in
\* progress, the snapshot is a complete file holding the records of the
\* Backend table, name by name.
C19_SnapshotEqualsTable ==
  (phase = "serving" /\ \A w \in Workers : pc[w] = "idle") =>
    /\ storage.kind = "ok"
    /\ Records(storage.data) = Records(servers)


\* C20, as stated: the snapshot file never holds empty, partial or
\* interleaved content: it is absent or a complete serialization of a table.
C20_SnapshotNeverPartial ==
  storage.kind \in {"missing", "ok"}


\* The GET /tools requests that name a server, and those that name none (an
\* empty server_name counts as none, line 195).
NamedArgs ==
  {args \in ToolsRequests :
     "server_name" \in DOMAIN args /\ args["server_name"] # ""}
\* This step is a step of worker w's GET /tools handler.
ToolsStep(w) == loc[w].op = "get_tools" /\ loc'[w] # loc[w]

\* C12: GET /tools for a server that is not registered is answered 404 in its
\* first step, with no backend contacted; for a registered server the only
\* target is that server's entry; with no server named the targets are the
\* values of the table, taken in order, and the list is answered when all of
\* them have been gone through.
C12_ToolsTargets ==
  [][\A w \in Workers :
       /\ \A args \in NamedArgs :
            GetTools(w, args) =>
              IF args["server_name"] \notin NamesOf(servers)
                THEN /\ resp' = ReplyWith(w, "get_tools", 404,
                                          <<args["server_name"]>>)
                     /\ UNCHANGED <<pc, loc, health_cache>>
                ELSE \/ /\ pc'[w] \in {"probe", "list"}
                        /\ ~loc'[w].view
                        /\ loc'[w].server = Lookup(servers, args["server_name"])
                        /\ loc'[w].contacted = {}
                     \/ /\ pc'[w] = "idle"
                        /\ resp'.status = 200 /\ resp'.body = <<>>
       /\ \A args \in ToolsRequests \ NamedArgs :
            GetTools(w, args) =>
              /\ pc'[w] = "iter" /\ loc'[w].view
              /\ loc'[w].idx = 0 /\ loc'[w].used = Len(servers)
       /\ (ToolsStep(w) /\ ~loc[w].view) =>
            /\ pc'[w] # "iter"
            /\ pc'[w] # "idle" =>
                 /\ loc'[w].server = loc[w].server
                 /\ loc'[w].contacted \subseteq {loc[w].server}
       /\ (ToolsStep(w) /\ loc[w].view) =>
            /\ loc'[w].contacted \subseteq loc[w].contacted \cup {loc[w].server}
            /\ (pc[w] = "iter" /\ pc'[w] \in {"probe", "list"}) =>
                 loc'[w].server = servers[loc[w].idx + 1]
            /\ (pc'[w] = "idle" /\ resp'.status = 200) =>
                 loc[w].idx = Len(servers)]_vars

\* C12 witness: GET /tools?server_name=Echo was answered with the tools of
\* Echo alone while Evil is registered and running too.
C12_Witness ==
  /\ resp.op = "get_tools" /\ resp.status = 200
  /\ resp.name = Text("Echo")
  /\ resp.body = <<{<<"Echo", DOT, "echo_tool">>}>>
  /\ "Evil" \in NamesOf(servers)
  /\ TransportOK(Lookup(servers, "Evil"))


\* This step of worker w's GET /tools handler takes `server` as its next
\* target: the named server, or the next value of the table.
TakesTarget(w, server) ==
  \/ /\ CheckBegins(w, server)
     /\ loc[w].op = "get_tools"
  \/ \E args \in NamedArgs :
       /\ GetTools(w, args)
       /\ args["server_name"] \in NamesOf(servers)
       /\ server = Lookup(servers, args["server_name"])
\* After this step the handler is about to fetch the catalog of `server`.
GoesToList(w, server) == pc'[w] = "list" /\ loc'[w].server = server
\* This step gives the target up: nothing is fetched or added, and the
\* handler is at the next target or has answered with what it had.
SkipsTarget(w, had) ==
  \/ /\ pc'[w] = "iter"
     /\ loc'[w].acc = had.acc /\ loc'[w].contacted = had.contacted
  \/ /\ pc'[w] = "idle"
     /\ resp'.op = "get_tools" /\ resp'.status = 200
     /\ resp'.body = had.acc

\* C13, as stated: GET /tools fetches the catalog of every target directly,
\* whatever health verdict is cached for it and without probing it.
C13_ListsEveryTarget ==
  [][\A w \in Workers, server \in Records(servers) :
       TakesTarget(w, server) => GoesToList(w, server)]_vars

\* C13, amended: GET /tools checks the health of every target first.  A
\* target with a fresh cached verdict is listed when the verdict is healthy
\* and skipped, without any transport call, when it is unhealthy; a target
\* without a fresh verdict is probed, then listed when the probe succeeded
\* and skipped when it failed.
C13_ListsHealthyTargetsOnly ==
  [][\A w \in Workers :
       /\ \A server \in Records(servers) :
            TakesTarget(w, server) =>
              /\ health_cache' = health_cache
              /\ IF ~InWindow(server.name)
                   THEN pc'[w] = "probe" /\ loc'[w].server = server
                 ELSE IF health_cache[server.name].ok
                   THEN GoesToList(w, server)
                 ELSE SkipsTarget(w, IF loc[w].op = "get_tools"
                                       THEN loc[w] ELSE IdleLoc)
       /\ (RecordStep(w) /\ loc[w].op = "get_tools") =>
            IF loc[w].is_healthy
              THEN GoesToList(w, loc[w].server)
              ELSE SkipsTarget(w, loc[w])]_vars

\* C13 witness: a GET /tools handler has passed Echo without contacting it,
\* on a cached unhealthy verdict, although Echo is running.
C13_Witness ==
  \E w \in Workers :
    /\ loc[w].op = "get_tools" /\ loc[w].view /\ pc[w] = "iter"
    /\ "Echo" \in NamesOf(servers)
    /\ loc[w].idx >= IndexOf(servers, "Echo")
    /\ Lookup(servers, "Echo") \notin loc[w].contacted
    /\ InWindow("Echo") /\ ~health_cache["Echo"].ok
    /\ TransportOK(Lookup(servers, "Echo"))


\* This step is worker w's catalog fetch in GET /tools.
ListStep(w) == pc[w] = "list" /\ pc'[w] # "list"
\* After this step the handler has `acc` as its list of tools and goes on
\* with the next target, or (no target left) has answered 200 with it.
GoesOnWith(w, acc) ==
  IF loc[w].view
    THEN pc'[w] = "iter" /\ loc'[w].acc = acc /\ resp' = resp
    ELSE /\ pc'[w] = "idle"
         /\ resp'.op = "get_tools" /\ resp'.status = 200
         /\ resp'.body = acc

LoopStep(w) ==
  /\ pc[w] \in {"invoke", "call"}
  /\ pc'[w] # pc[w] \/ loc'[w] # loc[w]
\* The candidate the loop of worker w is at.
Candidate(w) == loc[w].acc[loc[w].idx + 1]
\* After this step the loop of worker w is at its next candidate, or, the
\* candidate having been the last, the request is answered 404.
NextCandidate(w) ==
  IF loc[w].idx + 1 < Len(loc[w].acc)
    THEN /\ pc'[w] = "invoke"
         /\ loc'[w].idx = loc[w].idx + 1
         /\ loc'[w].acc = loc[w].acc
         /\ resp' = resp
    ELSE /\ pc'[w] = "idle"
         /\ resp'.worker = w /\ resp'.status = 404

\* C15: the invocation loop goes through the candidates in their order and
\* contacts the one it is at only.  A candidate whose catalog lacks the tool,
\* or whose catalog fetch or call fails, makes the loop go on with the next
\* candidate; the first candidate that has the tool and completes the call
\* gives the 200 response and ends the loop; 404 is answered from the last
\* candidate only.
C15_FirstSuccessWins ==
  [][\A w \in Workers :
       LoopStep(w) =>
         LET tool_name == ToolPart(loc[w].name)
             found == /\ TransportOK(Candidate(w))
                      /\ Len(tool_name) = 1
                      /\ tool_name[1]
                           \in Catalog(portState[Candidate(w).port])
         IN /\ pc'[w] # "idle" =>
                 loc'[w].contacted \subseteq
                   loc[w].contacted \cup {Candidate(w)}
            /\ IF ~found THEN NextCandidate(w)
               ELSE IF pc[w] = "invoke"
                 THEN /\ pc'[w] = "call"
                      /\ loc'[w].idx = loc[w].idx
                      /\ loc'[w].acc = loc[w].acc
                      /\ resp' = resp
               ELSE /\ pc'[w] = "idle"
                    /\ resp'.worker = w /\ resp'.status = 200
                    /\ resp'.body[1].server = Candidate(w)
            /\ (pc'[w] = "idle" /\ resp'.status = 404) =>
                 loc[w].idx + 1 = Len(loc[w].acc)]_vars

\* C15 witness: the loop passed its first candidate after contacting it and
\* is calling the tool on the second, with a third candidate left.
C15_Witness ==
  \E w \in Workers :
    /\ loc[w].op = "call_tool" /\ pc[w] = "call"
    /\ loc[w].idx = 1 /\ Len(loc[w].acc) = 3
    /\ loc[w].contacted = {loc[w].acc[1], loc[w].acc[2]}


\* This step is a step of worker w's invocation loop in which the catalog
\* fetch or the call fails at the transport.
TransportFails(w) == LoopStep(w) /\ ~TransportOK(Candidate(w))

SaveFailure(w) ==
  /\ pc[w] \in {"save_open", "save_close"}
  /\ pc'[w] = "idle"
  /\ resp'.worker = w /\ resp'.status # 201
\* The snapshot file as it was when worker w called save_servers.
SnapshotBefore(w) == IF pc[w] = "save_open" THEN storage ELSE loc[w].before

\* C21: when the snapshot write fails in a registration, the request is
\* answered with an error, the new record stays in the Backend table, and
\* the snapshot file has the content it had before the write.
C21_FailedSaveKeepsSnapshot ==
  [][\A w \in Workers :
       SaveFailure(w) =>
         /\ resp'.op = "register_server" /\ resp'.status = 500
         /\ servers' = servers
         /\ Lookup(servers', loc[w].server.name) = loc[w].server
         /\ storage' = SnapshotBefore(w)]_vars

\* C21, the part that holds: the failure is answered 500 and the new record
\* stays in the Backend table.
C21_FailedSaveKeepsRecord ==
  [][\A w \in Workers :
       SaveFailure(w) =>
         /\ resp'.op = "register_server" /\ resp'.status = 500
         /\ servers' = servers
         /\ Lookup(servers', loc[w].server.name) = loc[w].server]_vars


\* The snapshot file is absent, is not valid JSON, or has an entry that
\* cannot be turned into a Server.
Malformed(file) ==
  \/ file.kind # "ok"
  \/ \E i \in 1..Len(file.data) : ~IsServerData(file.data[i])
\* The entries of the table other than the privileged backend's.
Restored(table) ==
  {table[i] : i \in {j \in 1..Len(table) :
                       table[j].name # PERMISSION_SERVER_NAME}}
\* The entries of a snapshot, other than one under the privileged name, that
\* are in front of every entry Server() rejects and answer their health check.
ReachableIn(entries) ==
  {entries[i] :
     i \in {j \in 1..Len(entries) :
              /\ \A k \in 1..j : IsServerData(entries[k])
              /\ entries[j].name # PERMISSION_SERVER_NAME
              /\ ProbeOK(entries[j])}}

\* C22: startup goes on to serve whatever the snapshot file is; from a file
\* that is absent, not valid JSON, or has an entry that cannot be turned
\* into a Server, no entry is restored; from a well-formed file exactly the
\* entries that answer their health check are restored.
C22_MalformedLoadsNothing ==
  [][LoadAndServe =>
       /\ phase' = "serving"
       /\ Restored(servers') =
            IF Malformed(storage) THEN {} ELSE ReachableIn(storage.data)]_vars

\* C22, as the code has it: from a file with an entry that cannot be turned
\* into a Server, the reachable entries in front of the first such entry are
\* restored.
C22_LoadsUpToFirstBadEntry ==
  [][LoadAndServe =>
       /\ phase' = "serving"
       /\ Restored(servers') =
            IF storage.kind # "ok" THEN {}
            ELSE ReachableIn(storage.data)]_vars


\* The operations that read the registry.
ReadOps == {"get_servers", "get_tools", "call_tool"}
\* This step is a step of a handler of GET /servers, GET /tools or call_tool.
ReadStep(w) ==
  \/ /\ loc'[w] # loc[w]
     /\ loc[w].op \in ReadOps \/ loc'[w].op \in ReadOps
  \/ /\ loc' = loc
     /\ requests' # requests
     /\ resp'.worker = w /\ resp'.op \in ReadOps
\* This step is a step of a handler of register_server.
RegisterStep(w) ==
  \/ loc[w].op = "register"
  \/ loc'[w].op = "register"
  \/ /\ loc' = loc
     /\ requests' # requests
     /\ resp'.worker = w /\ resp'.op = "register_server"
\* The names in a list of records.
Listed(body) == {body[i].name : i \in 1..Len(body)}

\* C23: while the registry serves, no step removes a name from the Backend
\* table; the steps of GET /servers, GET /tools and call_tool leave the
\* table and the snapshot file as they are, and a step that changes either
\* is a step of register_server.  A server found unhealthy by GET /servers is
\* left out of the list and stays in the table; a server whose probe
\* succeeds is put on the list whatever verdict was cached for it before.
C23_OnlyRegisterChangesTable ==
  [][(phase = "serving" /\ phase' = "serving") =>
       /\ NamesOf(servers) \subseteq NamesOf(servers')
       /\ \A w \in Workers :
            ReadStep(w) => servers' = servers /\ storage' = storage
       /\ (servers' # servers \/ storage' # storage) =>
            \E w \in Workers : RegisterStep(w)
       /\ \A w \in Workers :
            (RecordStep(w) /\ loc[w].op = "get_servers") =>
              /\ loc[w].server.name \in NamesOf(servers')
              /\ loc'[w].acc =
                   IF loc[w].is_healthy
                     THEN Append(loc[w].acc, loc[w].server)
                     ELSE loc[w].acc]_vars

\* C23 witness: the last GET /servers answered without Echo, which had been
\* registered by then; Echo is in the table and in the snapshot, and the
\* GET /servers being handled now has probed it and put it on its list.
C23_Witness ==
  /\ resp.op = "get_servers" /\ resp.status = 200
  /\ "Echo" \notin Listed(resp.body)
  /\ "Echo" \in done
  /\ \A w \in Workers : loc[w].op # "register"
  /\ storage.kind = "ok"
  /\ Lookup(servers, "Echo") \in Records(storage.data)
  /\ \E w \in Workers :
       /\ loc[w].op = "get_servers"
       /\ loc[w].probes > 0
       /\ Lookup(servers, "Echo") \in Records(loc[w].acc)


\* The ports from r to the end of the range that can be bound.
FreeFrom(r) == {p \in r..END_PORT : portState[p] = "free"}
\* The least port of a non-empty set.
Least(ports) == CHOOSE p \in ports : \A q \in ports : p <= q

\* C24: whatever the starting point r in the range and whatever holds the
\* ports, the scan tries r, r + 1, ... and no port below r, stops at the
\* first port that binds and returns it, and fails exactly when no port from
\* r to the end of the range can be bound.
C24_ScanUpwardFromStart ==
  \A r \in Ports :
    IF FreeFrom(r) = {}
      THEN /\ ScanFrom(r, END_PORT) = NoPort
           /\ ProbedFrom(r, END_PORT) = r..END_PORT
      ELSE /\ ScanFrom(r, END_PORT) = Least(FreeFrom(r))
           /\ ProbedFrom(r, END_PORT) = r..Least(FreeFrom(r))

\* C24 witness: a registration was answered 500 for want of a port, and the
\* scan from the last port of the range fails now, while a lower port of the
\* range is free.
C24_Witness ==
  /\ resp.op = "register_server" /\ resp.status = 500
  /\ ScanFrom(END_PORT, END_PORT) = NoPort
  /\ \E p \in START_PORT..(END_PORT - 1) : portState[p] = "free"


\* C25: a health check that returns the cached verdict for a server returns
\* a verdict that was obtained from the url and port of that server's
\* record, the one registered under the name.
C25_CachedVerdictOfCurrentRecord ==
  [][\A w \in Workers, server \in Records(servers) :
       (CheckBegins(w, server) /\ InWindow(server.name)) =>
         health_cache[server.name].of = Address(server)]_vars

\* C25, at startup: once the registry serves, a fresh verdict cached for the
\* privileged backend was obtained from the address of the entry created at
\* this start, not from that of a PermissionServer record of the snapshot.
C25_StartupVerdictOfNewEntry ==
  (phase = "serving" /\ InWindow(PERMISSION_SERVER_NAME)) =>
    health_cache[PERMISSION_SERVER_NAME].of = Address(PermissionEntry(servers))


\* C26: while the registry serves, the Backend table has an entry named
\* PermissionServer, no step of a register_server, GET /servers, GET /tools
\* or call_tool request changes that entry, and a call of the unqualified
\* consent tool takes that entry as its only candidate in its first step.
C26_PrivilegedEntryStays ==
  [][(phase = "serving" /\ phase' = "serving") =>
       /\ PERMISSION_SERVER_NAME \in NamesOf(servers)
       /\ PERMISSION_SERVER_NAME \in NamesOf(servers')
       /\ PermissionEntry(servers') = PermissionEntry(servers)
       /\ \A w \in Workers :
            CallTool(w, CallData(<<ASK_FOR_PERMISSION>>)) =>
              /\ pc'[w] = "invoke"
              /\ loc'[w].acc = <<PermissionEntry(servers)>>]_vars

\* C26 witness: a registration was refused 403, Evil is registered, and a
\* call of the unqualified consent tool is at its only candidate, the
\* privileged entry.
C26_Witness ==
  /\ resp.op = "register_server" /\ resp.status = 403
  /\ "Evil" \in NamesOf(servers)
  /\ \E w \in Workers :
       /\ loc[w].op = "call_tool" /\ pc[w] = "invoke"
       /\ loc[w].name = <<ASK_FOR_PERMISSION>>
       /\ loc[w].acc = <<PermissionEntry(servers)>>

====
